---- MODULE Spec2Model ----
(***************************************************************************)
(* Model of the raster-image buffers of the `photo` crate: ImageGA         *)
(* (2 channels), ImageRGB (3 channels) and ImageRGBA (4 channels), each a  *)
(* wrapper around one ndarray Array3<T> indexed [row][col][channel].       *)
(*                                                                         *)
(* An Array3 is modelled by its logical content: a record                  *)
(*   [dim |-> <<d0, d1, d2>>, a |-> [<<i, j, k>> |-> component]]           *)
(* with 0-based indices, as in the source.  Rust arrays such as            *)
(* `coords: [usize; 2]` are TLA+ tuples, so the source's coords[0] is      *)
(* coords[1] here and the source's coords[1] is coords[2].                 *)
(*                                                                         *)
(* A call that panics yields Panic; a panic ends the program.              *)
(***************************************************************************)
EXTENDS Integers, Sequences, FiniteSets, TLC

VARIABLES
    variant,            \* which buffer type the program uses: "GA", "RGB", "RGBA"
    debug_assertions,   \* build profile: TRUE when debug_assert! is compiled in
    data,               \* the buffer's `data: Array3<T>` field
    ret,                \* the last call: its name, arguments, outcome and value
    hist,               \* the buffers of the current run of transforms: hist[1] before
                        \* the first transform, hist[n + 1] after the n-th
    trace,              \* the transforms of the current run, oldest first
    writes              \* number of setter calls since construction

vars == <<variant, debug_assertions, data, ret, hist, trace, writes>>

----------------------------------------------------------------------------
(* Bounds of the model.                                                    *)

MaxDim == 2         \* accessors: largest height and width
MaxWrites == 1      \* accessors: setter calls per constructed buffer
MaxSide == 3        \* transforms: largest height and width
MaxTrace == 4       \* transforms: longest run of transforms that is recorded
MaxGrid == 4        \* windows and tiles: largest height and width
MaxTile == 2        \* windows and tiles: largest start offset, window size and tile size
MaxEntries == 4     \* unique_tiles: most distinct tiles of a buffer it is called on

----------------------------------------------------------------------------
(* Component type T: the additive and multiplicative identities.           *)

Zero == 0
One == 1

Variants == {"GA", "RGB", "RGBA"}

Channels(v) == CASE v = "GA" -> 2 [] v = "RGB" -> 3 [] v = "RGBA" -> 4

----------------------------------------------------------------------------
(* Outcomes of a call.                                                     *)

Ok(v) == [ok |-> TRUE, val |-> v]
Panic == [ok |-> FALSE, val |-> <<>>]

----------------------------------------------------------------------------
(* ndarray operations used by the source, by their logical effect.         *)

Idx(dim) == (0 .. dim[1] - 1) \X (0 .. dim[2] - 1) \X (0 .. dim[3] - 1)

\* Array3::zeros(shape)
zeros(shape) == [dim |-> shape, a |-> [i \in Idx(shape) |-> Zero]]

\* data.slice_mut(s![.., .., k]).fill(value)
fill_layer(arr, k, value) ==
    [arr EXCEPT !.a = [i \in Idx(arr.dim) |-> IF i[3] = k THEN value ELSE arr.a[i]]]

\* i, j, k index an element of arr (ndarray panics otherwise)
in_array(arr, i, j, k) ==
    /\ i \in 0 .. arr.dim[1] - 1
    /\ j \in 0 .. arr.dim[2] - 1
    /\ k \in 0 .. arr.dim[3] - 1

\* data[[i, j, k]]
index(arr, i, j, k) ==
    IF in_array(arr, i, j, k) THEN Ok(arr.a[<<i, j, k>>]) ELSE Panic

\* data[[i, j, k]] = value
index_assign(arr, i, j, k, value) ==
    IF in_array(arr, i, j, k)
    THEN Ok([arr EXCEPT !.a[<<i, j, k>>] = value])
    ELSE Panic

\* data.slice(s![i, j, ..]) converted to a fixed-size array [T; n].  The
\* channel axis is taken to be contiguous in memory (as_slice succeeds), as it
\* is for arrays built by Array3::zeros and left so by the transforms.
pixel_slice(arr, i, j, n) ==
    IF ~(i \in 0 .. arr.dim[1] - 1 /\ j \in 0 .. arr.dim[2] - 1) THEN Panic
    ELSE IF arr.dim[3] # n THEN Panic
    ELSE Ok([k \in 1 .. n |-> arr.a[<<i, j, k - 1>>]])

\* data.slice_mut(s![i, j, ..]).assign(&arr1(&pixel))
pixel_assign(arr, i, j, pixel) ==
    IF ~(i \in 0 .. arr.dim[1] - 1 /\ j \in 0 .. arr.dim[2] - 1) THEN Panic
    ELSE IF arr.dim[3] # Len(pixel) THEN Panic
    ELSE Ok([arr EXCEPT !.a = [x \in Idx(arr.dim) |->
                IF x[1] = i /\ x[2] = j THEN pixel[x[3] + 1] ELSE arr.a[x]]])

\* data.clone().permuted_axes([1, 0, 2]).to_owned()
permuted_axes(arr) ==
    LET d == <<arr.dim[2], arr.dim[1], arr.dim[3]>>
    IN  [dim |-> d, a |-> [x \in Idx(d) |-> arr.a[<<x[2], x[1], x[3]>>]]]

\* data.invert_axis(Axis(0))
invert_axis0(arr) ==
    [arr EXCEPT !.a = [x \in Idx(arr.dim) |-> arr.a[<<arr.dim[1] - 1 - x[1], x[2], x[3]>>]]]

\* data.invert_axis(Axis(1))
invert_axis1(arr) ==
    [arr EXCEPT !.a = [x \in Idx(arr.dim) |-> arr.a[<<x[1], arr.dim[2] - 1 - x[2], x[3]>>]]]

\* data.slice(s![r0..r1, c0..c1, ..]).to_owned(); ndarray panics when a range
\* does not lie inside its axis
slice(arr, r0, r1, c0, c1) ==
    IF ~(r0 <= r1 /\ r1 <= arr.dim[1] /\ c0 <= c1 /\ c1 <= arr.dim[2]) THEN Panic
    ELSE LET d == <<r1 - r0, c1 - c0, arr.dim[3]>>
         IN  Ok([dim |-> d, a |-> [x \in Idx(d) |-> arr.a[<<r0 + x[1], c0 + x[2], x[3]>>]]])

\* arr.iter().copied().collect(): the components in logical (row-major) order
iter(arr) ==
    [n \in 1 .. (arr.dim[1] * arr.dim[2] * arr.dim[3]) |->
        arr.a[<<(n - 1) \div (arr.dim[2] * arr.dim[3]),
                ((n - 1) \div arr.dim[3]) % arr.dim[2],
                (n - 1) % arr.dim[3]>>]]

\* Array2::from_shape_fn((rows, cols), f): the grid whose element at
\* (row, col) is f[<<row, col>>]
from_shape_fn(rows, cols, f) ==
    [dim |-> <<rows, cols>>,
     a |-> [x \in (0 .. rows - 1) \X (0 .. cols - 1) |-> f[x]]]

\* tiles.iter(): the elements of an Array2 in row-major order
iter2(grid) ==
    [n \in 1 .. (grid.dim[1] * grid.dim[2]) |->
        grid.a[<<(n - 1) \div grid.dim[2], (n - 1) % grid.dim[2]>>]]

\* The orders in which a std HashMap may yield its values: any.
hash_orders(entries) ==
    {[i \in 1 .. Len(entries) |-> entries[p[i]]] : p \in Permutations(1 .. Len(entries))}

----------------------------------------------------------------------------
(* ImageGA                                                                 *)

GA_new(dbg, arr) ==
    IF dbg /\ ~(arr.dim[1] > 0 /\ arr.dim[2] > 0 /\ arr.dim[3] = 2) THEN Panic
    ELSE Ok(arr)

GA_empty(dbg, resolution) ==
    IF dbg /\ ~(\A i \in 1 .. 2 : resolution[i] > 0) THEN Panic
    ELSE Ok(fill_layer(zeros(<<resolution[1], resolution[2], 2>>), 1, One))

GA_filled(dbg, resolution, value) ==
    IF dbg /\ ~(\A i \in 1 .. 2 : resolution[i] > 0) THEN Panic
    ELSE Ok(fill_layer(fill_layer(zeros(<<resolution[1], resolution[2], 2>>),
                                  0, value[1]), 1, value[2]))

GA_height(arr) == arr.dim[1]

GA_width(arr) == arr.dim[2]

GA_get_component(dbg, arr, coords, component) ==
    IF dbg /\ ~(component < 2) THEN Panic
    ELSE index(arr, coords[1], coords[2], component)

GA_set_component(dbg, arr, coords, component, value) ==
    IF dbg /\ ~(component < 2) THEN Panic
    ELSE index_assign(arr, coords[1], coords[2], component, value)

GA_get_pixel(arr, coords) == pixel_slice(arr, coords[1], coords[2], 2)

GA_set_pixel(arr, coords, pixel) == pixel_assign(arr, coords[1], coords[2], pixel)

\* A transpose that drops the permuted array and keeps self.data.
GA_transpose_dropped(arr) == arr

GA_transpose(arr) == permuted_axes(arr)

GA_flip_vertical(arr) == invert_axis0(arr)

GA_flip_horizontal(arr) == invert_axis1(arr)

GA_rotate_clockwise(arr) == invert_axis1(permuted_axes(arr))

GA_rotate_anticlockwise(arr) == invert_axis0(permuted_axes(arr))

\* A rotation that also reverses the channel axis, regrouping each pixel.
GA_rotate_180_all_axes(arr) ==
    [dim |-> arr.dim,
     a |-> [x \in Idx(arr.dim) |->
              arr.a[<<arr.dim[1] - 1 - x[1], arr.dim[2] - 1 - x[2], arr.dim[3] - 1 - x[3]>>]]]

GA_rotate_180(arr) == invert_axis1(invert_axis0(arr))

GA_extract(dbg, arr, start, size) ==
    IF dbg /\ ~(start[1] + size[1] <= GA_height(arr)) THEN Panic
    ELSE IF dbg /\ ~(start[2] + size[2] <= GA_width(arr)) THEN Panic
    ELSE IF dbg /\ ~(\A i \in 1 .. 2 : size[i] > 0) THEN Panic
    ELSE LET window == slice(arr, start[1], start[1] + size[1], start[2], start[2] + size[2])
         IN  IF window.ok THEN GA_new(dbg, window.val) ELSE Panic

\* The debug assertions of tiles: each dimension is a multiple of the tile's.
GA_tiles_exact(arr, tile_size) ==
    /\ GA_height(arr) % tile_size[1] = 0
    /\ GA_width(arr) % tile_size[2] = 0

GA_tiles(dbg, arr, tile_size) ==
    IF tile_size[1] = 0 \/ tile_size[2] = 0 THEN Panic  \* remainder by zero
    ELSE IF dbg /\ ~GA_tiles_exact(arr, tile_size) THEN Panic
    ELSE LET tile_rows == GA_height(arr) \div tile_size[1]
             tile_cols == GA_width(arr) \div tile_size[2]
             tile == [p \in (0 .. tile_rows - 1) \X (0 .. tile_cols - 1) |->
                         LET y == p[1] * tile_size[1]
                             x == p[2] * tile_size[2]
                         IN  slice(arr, y, y + tile_size[1], x, x + tile_size[2]).val]
         IN  Ok(from_shape_fn(tile_rows, tile_cols, tile))

\* An entry call whose and_modify leaves the count of a key already present.
GA_entry_uncounted(freq_map, key, tile) ==
    IF \E i \in 1 .. Len(freq_map) : freq_map[i].key = key
    THEN freq_map
    ELSE Append(freq_map, [key |-> key, tile |-> tile, count |-> 1])

\* freq_map.entry(key).and_modify(|(_, count)| *count += 1).or_insert((tile.clone(), 1))
GA_entry(freq_map, key, tile) ==
    IF \E i \in 1 .. Len(freq_map) : freq_map[i].key = key
    THEN [i \in 1 .. Len(freq_map) |->
            IF freq_map[i].key = key
            THEN [freq_map[i] EXCEPT !.count = @ + 1]
            ELSE freq_map[i]]
    ELSE Append(freq_map, [key |-> key, tile |-> tile, count |-> 1])

\* The IndexMap after the first n tiles of the traversal, as the list of its
\* entries in insertion order.
RECURSIVE GA_freq_map(_, _)
GA_freq_map(tiles, n) ==
    IF n = 0 THEN <<>>
    ELSE GA_entry(GA_freq_map(tiles, n - 1), iter(tiles[n]), tiles[n])

\* The possible results of unique_tiles.  An IndexMap yields its values in insertion order.
GA_unique_tiles(dbg, arr, tile_size) ==
    LET grid == GA_tiles(dbg, arr, tile_size)
    IN  IF ~grid.ok THEN {Panic}
        ELSE LET tiles == iter2(grid.val)
                 m == GA_freq_map(tiles, Len(tiles))
             IN  {Ok([i \in 1 .. Len(m) |-> <<m[i].tile, m[i].count>>])}

----------------------------------------------------------------------------
(* ImageRGB                                                                *)

RGB_new(dbg, arr) ==
    IF dbg /\ ~(arr.dim[1] > 0 /\ arr.dim[2] > 0 /\ arr.dim[3] = 3) THEN Panic
    ELSE Ok(arr)

RGB_empty(dbg, width, height) ==
    IF dbg /\ ~(width > 0 /\ height > 0) THEN Panic
    ELSE Ok(zeros(<<height, width, 3>>))

RGB_filled(dbg, width, height, value) ==
    IF dbg /\ ~(width > 0 /\ height > 0) THEN Panic
    ELSE Ok(fill_layer(fill_layer(fill_layer(zeros(<<height, width, 3>>),
                                  0, value[1]), 1, value[2]), 2, value[3]))

RGB_width(arr) == arr.dim[2]

RGB_height(arr) == arr.dim[1]

RGB_get_component(dbg, arr, coords, component) ==
    IF dbg /\ ~(component < 3) THEN Panic
    ELSE index(arr, coords[2], coords[1], component)

RGB_set_component(dbg, arr, coords, component, value) ==
    IF dbg /\ ~(component < 3) THEN Panic
    ELSE index_assign(arr, coords[2], coords[1], component, value)

\* A get_pixel that reads [coords[0]][coords[1]] while set_pixel writes
\* [coords[1]][coords[0]].
RGB_get_pixel_row_first(arr, coords) == pixel_slice(arr, coords[1], coords[2], 3)

RGB_get_pixel(arr, coords) == pixel_slice(arr, coords[2], coords[1], 3)

RGB_set_pixel(arr, coords, pixel) == pixel_assign(arr, coords[2], coords[1], pixel)

\* A transpose that also reverses the new column axis.
RGB_transpose_reversing(arr) == invert_axis1(permuted_axes(arr))

RGB_transpose(arr) == permuted_axes(arr)

RGB_flip_vertical(arr) == invert_axis0(arr)

RGB_flip_horizontal(arr) == invert_axis1(arr)

RGB_rotate_clockwise(arr) == invert_axis1(permuted_axes(arr))

RGB_rotate_anticlockwise(arr) == invert_axis0(permuted_axes(arr))

RGB_rotate_180(arr) == invert_axis1(invert_axis0(arr))

RGB_extract(dbg, arr, start, size) ==
    IF dbg /\ ~(start[1] + size[1] <= RGB_width(arr)) THEN Panic
    ELSE IF dbg /\ ~(start[2] + size[2] <= RGB_height(arr)) THEN Panic
    ELSE IF dbg /\ ~(\A i \in 1 .. 2 : size[i] > 0) THEN Panic
    ELSE LET window == slice(arr, start[2], start[2] + size[2], start[1], start[1] + size[1])
         IN  IF window.ok THEN RGB_new(dbg, window.val) ELSE Panic

\* The debug assertions of tiles: each dimension is a multiple of the tile's.
RGB_tiles_exact(arr, tile_size) ==
    /\ RGB_height(arr) % tile_size[2] = 0
    /\ RGB_width(arr) % tile_size[1] = 0

RGB_tiles(dbg, arr, tile_size) ==
    IF tile_size[1] = 0 \/ tile_size[2] = 0 THEN Panic  \* remainder by zero
    ELSE IF dbg /\ ~RGB_tiles_exact(arr, tile_size) THEN Panic
    ELSE LET tile_rows == RGB_height(arr) \div tile_size[2]
             tile_cols == RGB_width(arr) \div tile_size[1]
             tile == [p \in (0 .. tile_rows - 1) \X (0 .. tile_cols - 1) |->
                         LET y == p[1] * tile_size[2]
                             x == p[2] * tile_size[1]
                         IN  slice(arr, y, y + tile_size[2], x, x + tile_size[1]).val]
         IN  Ok(from_shape_fn(tile_rows, tile_cols, tile))

\* freq_map.entry(key).and_modify(|(_, count)| *count += 1).or_insert((tile.clone(), 1))
RGB_entry(freq_map, key, tile) ==
    IF \E i \in 1 .. Len(freq_map) : freq_map[i].key = key
    THEN [i \in 1 .. Len(freq_map) |->
            IF freq_map[i].key = key
            THEN [freq_map[i] EXCEPT !.count = @ + 1]
            ELSE freq_map[i]]
    ELSE Append(freq_map, [key |-> key, tile |-> tile, count |-> 1])

\* The HashMap after the first n tiles of the traversal, as the list of its
\* entries in insertion order.
RECURSIVE RGB_freq_map(_, _)
RGB_freq_map(tiles, n) ==
    IF n = 0 THEN <<>>
    ELSE RGB_entry(RGB_freq_map(tiles, n - 1), iter(tiles[n]), tiles[n])

\* The possible results of unique_tiles.  A std HashMap yields its values in an unspecified order.
RGB_unique_tiles(dbg, arr, tile_size) ==
    LET grid == RGB_tiles(dbg, arr, tile_size)
    IN  IF ~grid.ok THEN {Panic}
        ELSE LET tiles == iter2(grid.val)
                 m == RGB_freq_map(tiles, Len(tiles))
             IN  {Ok(o) : o \in hash_orders([i \in 1 .. Len(m) |-> <<m[i].tile, m[i].count>>])}

----------------------------------------------------------------------------
(* ImageRGBA                                                               *)

RGBA_new(dbg, arr) ==
    IF dbg /\ ~(arr.dim[1] > 0 /\ arr.dim[2] > 0 /\ arr.dim[3] = 4) THEN Panic
    ELSE Ok(arr)

RGBA_empty(dbg, width, height) ==
    IF dbg /\ ~(width > 0 /\ height > 0) THEN Panic
    ELSE Ok(zeros(<<height, width, 4>>))

RGBA_filled(dbg, width, height, value) ==
    IF dbg /\ ~(width > 0 /\ height > 0) THEN Panic
    ELSE Ok(fill_layer(fill_layer(fill_layer(fill_layer(zeros(<<height, width, 4>>),
                       0, value[1]), 1, value[2]), 2, value[3]), 3, value[4]))

RGBA_width(arr) == arr.dim[2]

RGBA_height(arr) == arr.dim[1]

RGBA_get_component(dbg, arr, coords, component) ==
    IF dbg /\ ~(component < 4) THEN Panic
    ELSE index(arr, coords[2], coords[1], component)

RGBA_set_component(dbg, arr, coords, component, value) ==
    IF dbg /\ ~(component < 4) THEN Panic
    ELSE index_assign(arr, coords[2], coords[1], component, value)

RGBA_get_pixel(arr, coords) == pixel_slice(arr, coords[2], coords[1], 4)

RGBA_set_pixel(arr, coords, pixel) == pixel_assign(arr, coords[2], coords[1], pixel)

RGBA_transpose(arr) == permuted_axes(arr)

RGBA_flip_vertical(arr) == invert_axis0(arr)

RGBA_flip_horizontal(arr) == invert_axis1(arr)

RGBA_rotate_clockwise(arr) == invert_axis1(permuted_axes(arr))

\* An anticlockwise rotation that inverts Axis(1), as rotate_clockwise does.
RGBA_rotate_anticlockwise_axis1(arr) == invert_axis1(permuted_axes(arr))

RGBA_rotate_anticlockwise(arr) == invert_axis0(permuted_axes(arr))

RGBA_rotate_180(arr) == invert_axis1(invert_axis0(arr))

----------------------------------------------------------------------------
(* The call the program makes on its buffer, by variant.                   *)

new(v, dbg, arr) ==
    CASE v = "GA" -> GA_new(dbg, arr)
      [] v = "RGB" -> RGB_new(dbg, arr)
      [] v = "RGBA" -> RGBA_new(dbg, arr)

\* GA takes one `resolution` array; RGB and RGBA take (width, height).
empty(v, dbg, a, b) ==
    CASE v = "GA" -> GA_empty(dbg, <<a, b>>)
      [] v = "RGB" -> RGB_empty(dbg, a, b)
      [] v = "RGBA" -> RGBA_empty(dbg, a, b)

filled(v, dbg, a, b, value) ==
    CASE v = "GA" -> GA_filled(dbg, <<a, b>>, value)
      [] v = "RGB" -> RGB_filled(dbg, a, b, value)
      [] v = "RGBA" -> RGBA_filled(dbg, a, b, value)

width(v, arr) ==
    CASE v = "GA" -> GA_width(arr)
      [] v = "RGB" -> RGB_width(arr)
      [] v = "RGBA" -> RGBA_width(arr)

height(v, arr) ==
    CASE v = "GA" -> GA_height(arr)
      [] v = "RGB" -> RGB_height(arr)
      [] v = "RGBA" -> RGBA_height(arr)

get_component(v, dbg, arr, coords, component) ==
    CASE v = "GA" -> GA_get_component(dbg, arr, coords, component)
      [] v = "RGB" -> RGB_get_component(dbg, arr, coords, component)
      [] v = "RGBA" -> RGBA_get_component(dbg, arr, coords, component)

set_component(v, dbg, arr, coords, component, value) ==
    CASE v = "GA" -> GA_set_component(dbg, arr, coords, component, value)
      [] v = "RGB" -> RGB_set_component(dbg, arr, coords, component, value)
      [] v = "RGBA" -> RGBA_set_component(dbg, arr, coords, component, value)

get_pixel(v, arr, coords) ==
    CASE v = "GA" -> GA_get_pixel(arr, coords)
      [] v = "RGB" -> RGB_get_pixel(arr, coords)
      [] v = "RGBA" -> RGBA_get_pixel(arr, coords)

set_pixel(v, arr, coords, pixel) ==
    CASE v = "GA" -> GA_set_pixel(arr, coords, pixel)
      [] v = "RGB" -> RGB_set_pixel(arr, coords, pixel)
      [] v = "RGBA" -> RGBA_set_pixel(arr, coords, pixel)

transpose(v, arr) ==
    CASE v = "GA" -> GA_transpose(arr)
      [] v = "RGB" -> RGB_transpose(arr)
      [] v = "RGBA" -> RGBA_transpose(arr)

flip_vertical(v, arr) ==
    CASE v = "GA" -> GA_flip_vertical(arr)
      [] v = "RGB" -> RGB_flip_vertical(arr)
      [] v = "RGBA" -> RGBA_flip_vertical(arr)

flip_horizontal(v, arr) ==
    CASE v = "GA" -> GA_flip_horizontal(arr)
      [] v = "RGB" -> RGB_flip_horizontal(arr)
      [] v = "RGBA" -> RGBA_flip_horizontal(arr)

rotate_clockwise(v, arr) ==
    CASE v = "GA" -> GA_rotate_clockwise(arr)
      [] v = "RGB" -> RGB_rotate_clockwise(arr)
      [] v = "RGBA" -> RGBA_rotate_clockwise(arr)

rotate_anticlockwise(v, arr) ==
    CASE v = "GA" -> GA_rotate_anticlockwise(arr)
      [] v = "RGB" -> RGB_rotate_anticlockwise(arr)
      [] v = "RGBA" -> RGBA_rotate_anticlockwise(arr)

rotate_180(v, arr) ==
    CASE v = "GA" -> GA_rotate_180(arr)
      [] v = "RGB" -> RGB_rotate_180(arr)
      [] v = "RGBA" -> RGBA_rotate_180(arr)

extract(v, dbg, arr, start, size) ==
    CASE v = "GA" -> GA_extract(dbg, arr, start, size)
      [] v = "RGB" -> RGB_extract(dbg, arr, start, size)

tiles_exact(v, arr, tile_size) ==
    CASE v = "GA" -> GA_tiles_exact(arr, tile_size)
      [] v = "RGB" -> RGB_tiles_exact(arr, tile_size)

tiles(v, dbg, arr, tile_size) ==
    CASE v = "GA" -> GA_tiles(dbg, arr, tile_size)
      [] v = "RGB" -> RGB_tiles(dbg, arr, tile_size)

unique_tiles(v, dbg, arr, tile_size) ==
    CASE v = "GA" -> GA_unique_tiles(dbg, arr, tile_size)
      [] v = "RGB" -> RGB_unique_tiles(dbg, arr, tile_size)

----------------------------------------------------------------------------
(* Inputs.                                                                 *)

\* The array whose component at [i][j][k] is its row-major storage offset:
\* all components differ, so any misplaced component shows.
Ramp(h, w, c) ==
    [dim |-> <<h, w, c>>, a |-> [x \in Idx(<<h, w, c>>) |-> (x[1] * w + x[2]) * c + x[3]]]

\* Pixel values handed to set_pixel and filled; none occurs in a Ramp, and
\* the components of one pixel differ.
PixelBases == {200}
PixelInputs(c) == {[k \in 1 .. c |-> b + k] : b \in PixelBases}

\* Component indices handed to the component accessors: the first, the last
\* and the first one out of range.
ComponentIndexInputs(c) == {0, c - 1, c}

\* Component values handed to set_component.
ComponentInputs == {250}

\* Coordinates include one value past the largest dimension.
CoordInputs == (0 .. MaxDim) \X (0 .. MaxDim)

\* Dimensions handed to the constructors include zero.
DimInputs == 0 .. MaxDim

Call(op, args, res) == [op |-> op, args |-> args, ok |-> res.ok, val |-> res.val]
Done(op, args) == [op |-> op, args |-> args, ok |-> TRUE, val |-> <<>>]
Abort(op, args) == [op |-> op, args |-> args, ok |-> FALSE, val |-> <<>>]

----------------------------------------------------------------------------
(* Constructors and accessors.                                             *)

Init ==
    /\ variant \in Variants
    /\ debug_assertions \in BOOLEAN
    /\ \E h \in 1 .. MaxDim, w \in 1 .. MaxDim :
          data = new(variant, debug_assertions, Ramp(h, w, Channels(variant))).val
    /\ ret = Done("new", <<>>)
    /\ hist = <<data>>
    /\ trace = <<>>
    /\ writes = 0

\* A new buffer replaces the current one.
Construct(op, args, res) ==
    /\ ret.ok
    /\ IF res.ok
       THEN /\ data' = res.val
            /\ ret' = Done(op, args)
       ELSE /\ data' = data
            /\ ret' = Abort(op, args)
    /\ hist' = <<data'>>
    /\ writes' = 0
    /\ UNCHANGED <<variant, debug_assertions, trace>>

Empty ==
    \E a \in DimInputs, b \in DimInputs :
        Construct("empty", <<a, b>>, empty(variant, debug_assertions, a, b))

Filled ==
    \E a \in DimInputs, b \in DimInputs, value \in PixelInputs(Channels(variant)) :
        Construct("filled", <<a, b, value>>,
                  filled(variant, debug_assertions, a, b, value))

\* A setter call on the current buffer.
Write(op, args, res) ==
    /\ ret.ok
    /\ writes < MaxWrites
    /\ IF res.ok
       THEN /\ data' = res.val
            /\ ret' = Done(op, args)
       ELSE /\ data' = data
            /\ ret' = Abort(op, args)
    /\ hist' = <<data'>>
    /\ writes' = writes + 1
    /\ UNCHANGED <<variant, debug_assertions, trace>>

SetPixel ==
    \E coords \in CoordInputs, pixel \in PixelInputs(Channels(variant)) :
        Write("set_pixel", <<coords, pixel>>, set_pixel(variant, data, coords, pixel))

SetComponent ==
    \E coords \in CoordInputs, component \in ComponentIndexInputs(Channels(variant)),
       value \in ComponentInputs :
        Write("set_component", <<coords, component, value>>,
              set_component(variant, debug_assertions, data, coords, component, value))

Next == Empty \/ Filled \/ SetPixel \/ SetComponent

Spec == Init /\ [][Next]_vars

----------------------------------------------------------------------------
(* Claims about constructors and accessors, checked under Spec.            *)

C2_EmptyIsZeroWithOpaqueAlpha ==
    (ret.op = "empty" /\ ret.ok /\ ret.args[1] > 0 /\ ret.args[2] > 0)
        => \A x \in Idx(data.dim) :
              data.a[x] = IF variant \in {"GA", "RGBA"} /\ x[3] = Channels(variant) - 1
                          THEN One ELSE Zero

\* The coordinate pair (x, y) lies inside arr when x is a column and y a row.
InBoundsXY(v, arr, coords) == coords[1] < width(v, arr) /\ coords[2] < height(v, arr)

\* The pixel stored at row y, column x.
StoredPixel(arr, x, y) == [k \in 1 .. arr.dim[3] |-> arr.a[<<y, x, k - 1>>]]

\* C3: in every variant coords = (x = column, y = row): get_pixel and
\* get_component read storage element [row y][column x], set_pixel and
\* set_component write it, and a coordinate is in bounds (the call does not
\* panic) exactly when x < width() and y < height().
C3_ColumnRowConvention ==
    ret.ok =>
        /\ \A coords \in CoordInputs :
              /\ get_pixel(variant, data, coords) =
                    IF InBoundsXY(variant, data, coords)
                    THEN Ok(StoredPixel(data, coords[1], coords[2])) ELSE Panic
              /\ \A k \in 0 .. Channels(variant) - 1 :
                    get_component(variant, debug_assertions, data, coords, k) =
                        IF InBoundsXY(variant, data, coords)
                        THEN Ok(data.a[<<coords[2], coords[1], k>>]) ELSE Panic
        /\ ret.op = "set_pixel" =>
              /\ InBoundsXY(variant, data, ret.args[1])
              /\ StoredPixel(data, ret.args[1][1], ret.args[1][2]) = ret.args[2]
        /\ ret.op = "set_component" =>
              /\ InBoundsXY(variant, data, ret.args[1])
              /\ data.a[<<ret.args[1][2], ret.args[1][1], ret.args[2]>>] = ret.args[3]

----------------------------------------------------------------------------
(* In-place geometric transforms.                                          *)

InitTransform ==
    /\ variant \in Variants
    /\ debug_assertions \in BOOLEAN
    /\ \E h \in 1 .. MaxSide, w \in 1 .. MaxSide :
          data = new(variant, debug_assertions, Ramp(h, w, Channels(variant))).val
    /\ ret = Done("new", <<>>)
    /\ hist = <<data>>
    /\ trace = <<>>
    /\ writes = 0

\* A transform replaces self.data and is recorded in the current run.
Transform(op, arr) ==
    /\ ret.ok
    /\ Len(trace) < MaxTrace
    /\ data' = arr
    /\ ret' = Done(op, <<>>)
    /\ hist' = Append(hist, arr)
    /\ trace' = Append(trace, op)
    /\ UNCHANGED <<variant, debug_assertions, writes>>

Transpose == Transform("transpose", transpose(variant, data))

FlipVertical == Transform("flip_vertical", flip_vertical(variant, data))

FlipHorizontal == Transform("flip_horizontal", flip_horizontal(variant, data))

RotateClockwise == Transform("rotate_clockwise", rotate_clockwise(variant, data))

RotateAnticlockwise == Transform("rotate_anticlockwise", rotate_anticlockwise(variant, data))

NextTransform ==
    \/ Transpose
    \/ FlipVertical
    \/ FlipHorizontal
    \/ RotateClockwise
    \/ RotateAnticlockwise

SpecTransform == InitTransform /\ [][NextTransform]_vars

----------------------------------------------------------------------------
(* Windows, tiles and tile deduplication (ImageGA and ImageRGB).           *)

\* The h x w x c array whose pixel at row r, column col has the components
\* 10 * label[<<r, col>>] + k, k = 1 .. c.
Pattern(h, w, c, label) ==
    [dim |-> <<h, w, c>>,
     a |-> [x \in Idx(<<h, w, c>>) |-> 10 * label[<<x[1], x[2]>>] + x[3] + 1]]

\* Buffers with repeated content: a 2 x 2 motif repeated, a checkerboard,
\* and a constant buffer whose last pixel differs.
Periodic(h, w, c) ==
    Pattern(h, w, c, [p \in (0 .. h - 1) \X (0 .. w - 1) |-> 2 * (p[1] % 2) + (p[2] % 2)])

Checker(h, w, c) ==
    Pattern(h, w, c, [p \in (0 .. h - 1) \X (0 .. w - 1) |-> (p[1] + p[2]) % 2])

Defect(h, w, c) ==
    Pattern(h, w, c, [p \in (0 .. h - 1) \X (0 .. w - 1) |->
                         IF p[1] = h - 1 /\ p[2] = w - 1 THEN 1 ELSE 0])

TileVariants == {"GA", "RGB"}

TileImages(v, dbg) ==
    UNION {{new(v, dbg, Ramp(a, b, Channels(v))).val,
            new(v, dbg, Periodic(a, b, Channels(v))).val,
            new(v, dbg, Checker(a, b, Channels(v))).val,
            new(v, dbg, Defect(a, b, Channels(v))).val,
            empty(v, dbg, a, b).val} : a \in 1 .. MaxGrid, b \in 1 .. MaxGrid}

\* Start offsets, window sizes and tile sizes, zero included.
PairInputs == (0 .. MaxTile) \X (0 .. MaxTile)

InitTiles ==
    /\ variant \in TileVariants
    /\ debug_assertions \in BOOLEAN
    /\ data \in TileImages(variant, debug_assertions)
    /\ ret = Done("new", <<>>)
    /\ hist = <<data>>
    /\ trace = <<>>
    /\ writes = 0

\* A call that borrows the buffer immutably and returns a value.  It leaves
\* the buffer as constructed, so every call is made on the constructed buffer.
Read(op, args, res) ==
    /\ ret.op = "new"
    /\ ret' = Call(op, args, res)
    /\ UNCHANGED <<variant, debug_assertions, data, hist, trace, writes>>

Extract ==
    \E start \in PairInputs, size \in PairInputs :
        Read("extract", <<start, size>>,
             extract(variant, debug_assertions, data, start, size))

Tiles ==
    \E tile_size \in PairInputs :
        Read("tiles", <<tile_size>>, tiles(variant, debug_assertions, data, tile_size))

\* The number of distinct tile contents of the grid tiles(tile_size) returns.
DistinctTiles(tile_size) ==
    LET grid == tiles(variant, debug_assertions, data, tile_size)
    IN  IF grid.ok THEN Cardinality({iter(grid.val.a[x]) : x \in DOMAIN grid.val.a}) ELSE 0

UniqueTiles ==
    \E tile_size \in PairInputs :
        /\ ret.op = "new"
        /\ DistinctTiles(tile_size) <= MaxEntries
        /\ \E res \in unique_tiles(variant, debug_assertions, data, tile_size) :
              Read("unique_tiles", <<tile_size>>, res)

NextTiles == Extract \/ Tiles \/ UniqueTiles

SpecTiles == InitTiles /\ [][NextTiles]_vars

----------------------------------------------------------------------------
(* Claims about the transforms, checked under SpecTransform.               *)

\* The position i at which the latest calls of the current run began, when
\* these were ops[1], ops[2], ... one after the other (every earlier call of
\* the run was the latest call in an earlier state).
Runs(ops) ==
    LET i == Len(trace) - Len(ops) + 1
    IN  IF i >= 1 /\ \A j \in 1 .. Len(ops) : trace[i + j - 1] = ops[j] THEN {i} ELSE {}

\* C4: in every variant and for every buffer, square or not, flip_vertical
\* applied twice restores the buffer (dimensions and every pixel), and so do
\* flip_horizontal applied twice and transpose applied twice.
C4_TwiceIsIdentity ==
    \A op \in {"flip_vertical", "flip_horizontal", "transpose"} :
        \A i \in Runs(<<op, op>>) : hist[i + 2] = hist[i]

\* Each of the three transforms has been applied twice in a row to a
\* non-square buffer, and once changes the buffer.
C4_Witness ==
    /\ Len(trace) = 4
    /\ hist[1].dim[1] # hist[1].dim[2]
    /\ trace = <<"transpose", "transpose", "flip_vertical", "flip_vertical">>
    /\ hist[2] # hist[1]
    /\ hist[4] # hist[3]

\* C5: in every variant and for every buffer, square or not, four
\* rotate_clockwise calls in a row restore the buffer, and rotate_clockwise
\* followed by rotate_anticlockwise restores the buffer.
C5_RotationsCompose ==
    /\ \A i \in Runs(<<"rotate_clockwise", "rotate_clockwise",
                        "rotate_clockwise", "rotate_clockwise">>) : hist[i + 4] = hist[i]
    /\ \A i \in Runs(<<"rotate_clockwise", "rotate_anticlockwise">>) : hist[i + 2] = hist[i]

\* A non-square buffer has been rotated clockwise four times, no earlier
\* rotation having restored it.
C5_Witness ==
    /\ trace = <<"rotate_clockwise", "rotate_clockwise",
                 "rotate_clockwise", "rotate_clockwise">>
    /\ hist[1].dim[1] # hist[1].dim[2]
    /\ \A n \in 2 .. 4 : hist[n] # hist[1]

\* Coordinates handed to get_pixel on a transformed buffer, one value past
\* the largest dimension included.
SideCoords == (0 .. MaxSide) \X (0 .. MaxSide)

\* C6: transpose of a buffer of height H and width W yields height() = W,
\* width() = H, the same channel count, and get_pixel at (x, y) equal to the
\* source's get_pixel at (y, x), for every coordinate (out of bounds on one
\* side exactly when out of bounds on the other).
C6_TransposeSwapsAxes ==
    \A i \in Runs(<<"transpose">>) :
        /\ height(variant, hist[i + 1]) = width(variant, hist[i])
        /\ width(variant, hist[i + 1]) = height(variant, hist[i])
        /\ hist[i + 1].dim[3] = hist[i].dim[3]
        /\ hist[i + 1].dim[3] = Channels(variant)
        /\ \A c \in SideCoords :
              get_pixel(variant, hist[i + 1], c) = get_pixel(variant, hist[i], <<c[2], c[1]>>)

\* A buffer of height 3 and width 2 has been transposed.
C6_Witness ==
    /\ trace = <<"transpose">>
    /\ hist[1].dim[1] = 3 /\ hist[1].dim[2] = 2
    /\ get_pixel(variant, data, <<2, 1>>).ok # get_pixel(variant, data, <<1, 2>>).ok

----------------------------------------------------------------------------
(* Claims about windows and tiles, checked under SpecTiles.                *)

\* C7: for ImageGA and ImageRGB, extract(start, size) with size.x > 0,
\* size.y > 0, start.x + size.x <= width() and start.y + size.y <= height()
\* returns a buffer with width() = size.x and height() = size.y whose pixel at
\* (i, j), i.e. column i of row j, is the source's pixel at
\* (start.x + i, start.y + j).
C7_ExtractWindow ==
    LET start == ret.args[1]
        size == ret.args[2]
    IN  (/\ ret.op = "extract"
         /\ size[1] > 0 /\ size[2] > 0
         /\ start[1] + size[1] <= width(variant, data)
         /\ start[2] + size[2] <= height(variant, data))
        => /\ ret.ok
           /\ width(variant, ret.val) = size[1]
           /\ height(variant, ret.val) = size[2]
           /\ ret.val.dim[3] = Channels(variant)
           /\ \A i \in 0 .. size[1] - 1, j \in 0 .. size[2] - 1 :
                 StoredPixel(ret.val, i, j) = StoredPixel(data, start[1] + i, start[2] + j)

\* C8: for ImageGA and ImageRGB, when height % tile_size.y = 0 and
\* width % tile_size.x = 0, tiles(tile_size) returns a grid of shape
\* (height / tile_size.y, width / tile_size.x) whose tile at (r, c) has
\* width tile_size.x and height tile_size.y and whose pixel at offset (i, j)
\* is the source pixel at column c * tile_size.x + i of row
\* r * tile_size.y + j; the blocks partition the source.
C8_TilesGrid ==
    LET tile_size == ret.args[1]
    IN  (/\ ret.op = "tiles"
         /\ tile_size[1] > 0 /\ tile_size[2] > 0
         /\ height(variant, data) % tile_size[2] = 0
         /\ width(variant, data) % tile_size[1] = 0)
        => /\ ret.ok
           /\ ret.val.dim = <<height(variant, data) \div tile_size[2],
                              width(variant, data) \div tile_size[1]>>
           /\ ret.val.dim[1] * tile_size[2] = height(variant, data)
           /\ ret.val.dim[2] * tile_size[1] = width(variant, data)
           /\ \A x \in DOMAIN ret.val.a :
                 /\ width(variant, ret.val.a[x]) = tile_size[1]
                 /\ height(variant, ret.val.a[x]) = tile_size[2]
                 /\ ret.val.a[x].dim[3] = Channels(variant)
                 /\ \A i \in 0 .. tile_size[1] - 1, j \in 0 .. tile_size[2] - 1 :
                       StoredPixel(ret.val.a[x], i, j) =
                           StoredPixel(data, x[2] * tile_size[1] + i, x[1] * tile_size[2] + j)

\* The sum of the counts of the first n entries.
RECURSIVE SumCounts(_, _)
SumCounts(entries, n) == IF n = 0 THEN 0 ELSE SumCounts(entries, n - 1) + entries[n][2]

\* Every pixel of arr has the same components.
Uniform(arr) ==
    \A x \in Idx(arr.dim), y \in Idx(arr.dim) : x[3] = y[3] => arr.a[x] = arr.a[y]

\* C9: for ImageGA and ImageRGB and every exactly tileable buffer,
\* unique_tiles(tile_size) returns entries whose counts are each >= 1 and sum
\* to tile_rows * tile_cols, no two representatives having the same component
\* sequence; a buffer of identical pixels yields exactly one entry, whose
\* count is the number of tiles.
C9_UniqueTilesCounts ==
    LET tile_size == ret.args[1]
    IN  (/\ ret.op = "unique_tiles"
         /\ tile_size[1] > 0 /\ tile_size[2] > 0
         /\ tiles_exact(variant, data, tile_size))
        => /\ ret.ok
           /\ LET grid == tiles(variant, debug_assertions, data, tile_size).val
                   total == grid.dim[1] * grid.dim[2]
               IN  /\ \A k \in 1 .. Len(ret.val) : ret.val[k][2] >= 1
                   /\ SumCounts(ret.val, Len(ret.val)) = total
                   /\ \A k \in 1 .. Len(ret.val), l \in 1 .. Len(ret.val) :
                         k # l => iter(ret.val[k][1]) # iter(ret.val[l][1])
                   /\ Uniform(data) => Len(ret.val) = 1 /\ ret.val[1][2] = total

\* unique_tiles([2, 2]) has been called on the 4 x 4 two-channel buffer that
\* empty returns, and on no other.
C9_Witness ==
    /\ ret.op = "unique_tiles" /\ ret.ok
    /\ variant = "GA"
    /\ data = GA_empty(debug_assertions, <<4, 4>>).val
    /\ ret.args[1] = <<2, 2>>
    /\ Len(ret.val) = 1
    /\ ret.val[1][2] = 4

\* The distinct elements of seq, each with its number of occurrences, in the
\* order of their first occurrence.
FirstOccurrences(seq) ==
    LET firsts == {n \in 1 .. Len(seq) : \A m \in 1 .. n - 1 : seq[m] # seq[n]}
        nth(k) == CHOOSE n \in firsts : Cardinality({m \in firsts : m < n}) = k - 1
    IN  [k \in 1 .. Cardinality(firsts) |->
            <<seq[nth(k)], Cardinality({m \in 1 .. Len(seq) : seq[m] = seq[nth(k)]})>>]

\* C10: for ImageGA and ImageRGB, unique_tiles returns its entries in the
\* order of first occurrence in the row-major traversal of the tile grid, each
\* representative being the first tile with that content; the result is
\* therefore the same on every call.
C10_FirstOccurrenceOrder ==
    (ret.op = "unique_tiles" /\ ret.ok)
        => ret.val = FirstOccurrences(
                        iter2(tiles(variant, debug_assertions, data, ret.args[1]).val))

----------------------------------------------------------------------------
(* Layers: from_layers and get_layer.                                      *)

\* An Array2<T> is [dim |-> <<rows, cols>>, a |-> [<<i, j>> |-> component]].
nrows(layer) == layer.dim[1]

ncols(layer) == layer.dim[2]

\* A stack that cuts every layer down to the rows and columns all have.
stack_truncating(views) ==
    LET h == CHOOSE n \in {nrows(views[k]) : k \in 1 .. Len(views)} :
                 \A k \in 1 .. Len(views) : n <= nrows(views[k])
        w == CHOOSE n \in {ncols(views[k]) : k \in 1 .. Len(views)} :
                 \A k \in 1 .. Len(views) : n <= ncols(views[k])
        d == <<h, w, Len(views)>>
    IN  Ok([dim |-> d, a |-> [x \in Idx(d) |-> views[x[3] + 1].a[<<x[1], x[2]>>]]])

\* stack(Axis(2), views): Err (here Panic, every caller expects Ok) unless
\* all views have the shape of the first; else the array whose channel k is
\* views[k].
stack(views) ==
    IF \E k \in 1 .. Len(views) : views[k].dim # views[1].dim THEN Panic
    ELSE LET d == <<views[1].dim[1], views[1].dim[2], Len(views)>>
         IN  Ok([dim |-> d, a |-> [x \in Idx(d) |-> views[x[3] + 1].a[<<x[1], x[2]>>]]])

\* data.slice(s![.., .., component]).to_owned()
layer_slice(arr, component) ==
    IF ~(component \in 0 .. arr.dim[3] - 1) THEN Panic
    ELSE LET d == <<arr.dim[1], arr.dim[2]>>
         IN  Ok([dim |-> d,
                 a |-> [x \in (0 .. d[1] - 1) \X (0 .. d[2] - 1) |->
                          arr.a[<<x[1], x[2], component>>]]])

GA_from_layers(dbg, layers) ==
    IF dbg /\ ~(\A k \in 1 .. 2 : ncols(layers[k]) > 0) THEN Panic
    ELSE IF dbg /\ ~(\A k \in 1 .. 2 : nrows(layers[k]) > 0) THEN Panic
    ELSE IF dbg /\ ~(\A k \in 1 .. 2 : layers[k].dim = layers[1].dim) THEN Panic
    ELSE stack(<<layers[1], layers[2]>>)  \* .expect("Failed to stack layers")

GA_get_layer(dbg, arr, component) ==
    IF dbg /\ ~(component < 2) THEN Panic
    ELSE layer_slice(arr, component)

RGB_from_layers(dbg, layers) ==
    IF dbg /\ ~(\A k \in 1 .. 3 : ncols(layers[k]) > 0) THEN Panic
    ELSE IF dbg /\ ~(\A k \in 1 .. 3 : nrows(layers[k]) > 0) THEN Panic
    ELSE IF dbg /\ ~(\A k \in 1 .. 3 : layers[k].dim = layers[1].dim) THEN Panic
    ELSE stack(<<layers[1], layers[2], layers[3]>>)  \* .expect("Failed to stack layers")

RGB_get_layer(dbg, arr, component) ==
    IF dbg /\ ~(component < 3) THEN Panic
    ELSE layer_slice(arr, component)

RGBA_from_layers(dbg, layers) ==
    IF dbg /\ ~(\A k \in 1 .. 4 : ncols(layers[k]) > 0) THEN Panic
    ELSE IF dbg /\ ~(\A k \in 1 .. 4 : nrows(layers[k]) > 0) THEN Panic
    ELSE IF dbg /\ ~(\A k \in 1 .. 4 : layers[k].dim = layers[1].dim) THEN Panic
    ELSE stack(<<layers[1], layers[2], layers[3], layers[4]>>)  \* .expect("Failed to stack layers")

RGBA_get_layer(dbg, arr, component) ==
    IF dbg /\ ~(component < 4) THEN Panic
    ELSE layer_slice(arr, component)

from_layers(v, dbg, layers) ==
    CASE v = "GA" -> GA_from_layers(dbg, layers)
      [] v = "RGB" -> RGB_from_layers(dbg, layers)
      [] v = "RGBA" -> RGBA_from_layers(dbg, layers)

get_layer(v, dbg, arr, component) ==
    CASE v = "GA" -> GA_get_layer(dbg, arr, component)
      [] v = "RGB" -> RGB_get_layer(dbg, arr, component)
      [] v = "RGBA" -> RGBA_get_layer(dbg, arr, component)

MaxLayer == 2       \* layers: largest number of rows and of columns of a layer

\* The layer handed in as channel k, of the given shape (zero rows or columns
\* included): its components differ from each other and from those of every
\* other layer.
LayerShapes == (0 .. MaxLayer) \X (0 .. MaxLayer)

Layer(k, shape) ==
    [dim |-> shape,
     a |-> [x \in (0 .. shape[1] - 1) \X (0 .. shape[2] - 1) |->
              50 * k + x[1] * shape[2] + x[2]]]

InitLayers ==
    /\ variant \in Variants
    /\ debug_assertions \in BOOLEAN
    /\ data = new(variant, debug_assertions, Ramp(1, 1, Channels(variant))).val
    /\ ret = Done("new", <<>>)
    /\ hist = <<data>>
    /\ trace = <<>>
    /\ writes = 0

\* from_layers is an associated function: the program calls it once and keeps
\* the buffer it returns.
FromLayers ==
    /\ ret.op = "new"
    /\ \E shapes \in [1 .. Channels(variant) -> LayerShapes] :
         LET layers == [k \in 1 .. Channels(variant) |-> Layer(k, shapes[k])]
         IN  Construct("from_layers", <<layers>>,
                       from_layers(variant, debug_assertions, layers))

NextLayers == FromLayers

SpecLayers == InitLayers /\ [][NextLayers]_vars

\* C11: in every variant, from_layers with layers that do not all have the
\* same (height, width) aborts and returns no buffer; with layers of one
\* non-empty shape it returns a buffer of that height and width with the
\* variant's channel count whose channel k is layer k.
C11_FromLayers ==
    ret.op = "from_layers" =>
        LET layers == ret.args[1]
            same == \A k \in 1 .. Len(layers) : layers[k].dim = layers[1].dim
        IN  /\ Len(layers) = Channels(variant)
            /\ ~same => ~ret.ok /\ data = hist[1]
            /\ (same /\ nrows(layers[1]) > 0 /\ ncols(layers[1]) > 0) =>
                  /\ ret.ok
                  /\ height(variant, data) = nrows(layers[1])
                  /\ width(variant, data) = ncols(layers[1])
                  /\ data.dim[3] = Channels(variant)
                  /\ \A k \in 1 .. Len(layers) :
                        get_layer(variant, debug_assertions, data, k - 1) = Ok(layers[k])

\* In a release build from_layers has been handed four layers of which only
\* the last differs in shape, and has aborted.
C11_Witness ==
    /\ ret.op = "from_layers" /\ ~ret.ok
    /\ variant = "RGBA" /\ ~debug_assertions
    /\ \A k \in 1 .. 3 : ret.args[1][k].dim = <<2, 1>>
    /\ ret.args[1][4].dim = <<1, 2>>
    /\ data = hist[1]

----------------------------------------------------------------------------
(* Single tiles: extract_tile, view_tile and view_tile_mut.                *)

GA_extract_tile(dbg, arr, tile_size, tile_index) ==
    IF dbg /\ ~(\A i \in 1 .. 2 : tile_size[i] > 0) THEN Panic
    ELSE IF dbg /\ ~(tile_index[1] < GA_height(arr) \div tile_size[1]) THEN Panic
    ELSE IF dbg /\ ~(tile_index[2] < GA_width(arr) \div tile_size[2]) THEN Panic
    ELSE GA_extract(dbg, arr,
                    <<tile_index[1] * tile_size[1], tile_index[2] * tile_size[2]>>,
                    tile_size)

\* The view is modelled by the components it borrows.
GA_view_tile(dbg, arr, tile_size, tile_index) ==
    IF dbg /\ ~(\A i \in 1 .. 2 : tile_size[i] > 0) THEN Panic
    ELSE IF dbg /\ ~(tile_index[1] < GA_height(arr) \div tile_size[1]) THEN Panic
    ELSE IF dbg /\ ~(tile_index[2] < GA_width(arr) \div tile_size[2]) THEN Panic
    ELSE slice(arr,
               tile_index[1] * tile_size[1], (tile_index[1] + 1) * tile_size[1],
               tile_index[2] * tile_size[2], (tile_index[2] + 1) * tile_size[2])

\* slice_mut: the same window, borrowed mutably; the call itself writes nothing.
GA_view_tile_mut(dbg, arr, tile_size, tile_index) ==
    IF dbg /\ ~(\A i \in 1 .. 2 : tile_size[i] > 0) THEN Panic
    ELSE IF dbg /\ ~(tile_index[1] < GA_height(arr) \div tile_size[1]) THEN Panic
    ELSE IF dbg /\ ~(tile_index[2] < GA_width(arr) \div tile_size[2]) THEN Panic
    ELSE slice(arr,
               tile_index[1] * tile_size[1], (tile_index[1] + 1) * tile_size[1],
               tile_index[2] * tile_size[2], (tile_index[2] + 1) * tile_size[2])

RGB_extract_tile(dbg, arr, tile_size, tile_index) ==
    IF dbg /\ ~(\A i \in 1 .. 2 : tile_size[i] > 0) THEN Panic
    ELSE IF dbg /\ ~(tile_index[1] < RGB_width(arr) \div tile_size[1]) THEN Panic
    ELSE IF dbg /\ ~(tile_index[2] < RGB_height(arr) \div tile_size[2]) THEN Panic
    ELSE RGB_extract(dbg, arr,
                    <<tile_index[1] * tile_size[1], tile_index[2] * tile_size[2]>>,
                    tile_size)

\* The view is modelled by the components it borrows.
RGB_view_tile(dbg, arr, tile_size, tile_index) ==
    IF dbg /\ ~(\A i \in 1 .. 2 : tile_size[i] > 0) THEN Panic
    ELSE IF dbg /\ ~(tile_index[1] < RGB_width(arr) \div tile_size[1]) THEN Panic
    ELSE IF dbg /\ ~(tile_index[2] < RGB_height(arr) \div tile_size[2]) THEN Panic
    ELSE slice(arr,
               tile_index[2] * tile_size[2], (tile_index[2] + 1) * tile_size[2],
               tile_index[1] * tile_size[1], (tile_index[1] + 1) * tile_size[1])

\* slice_mut: the same window, borrowed mutably; the call itself writes nothing.
RGB_view_tile_mut(dbg, arr, tile_size, tile_index) ==
    IF dbg /\ ~(\A i \in 1 .. 2 : tile_size[i] > 0) THEN Panic
    ELSE IF dbg /\ ~(tile_index[1] < RGB_width(arr) \div tile_size[1]) THEN Panic
    ELSE IF dbg /\ ~(tile_index[2] < RGB_height(arr) \div tile_size[2]) THEN Panic
    ELSE slice(arr,
               tile_index[2] * tile_size[2], (tile_index[2] + 1) * tile_size[2],
               tile_index[1] * tile_size[1], (tile_index[1] + 1) * tile_size[1])

extract_tile(v, dbg, arr, tile_size, tile_index) ==
    CASE v = "GA" -> GA_extract_tile(dbg, arr, tile_size, tile_index)
      [] v = "RGB" -> RGB_extract_tile(dbg, arr, tile_size, tile_index)

view_tile(v, dbg, arr, tile_size, tile_index) ==
    CASE v = "GA" -> GA_view_tile(dbg, arr, tile_size, tile_index)
      [] v = "RGB" -> RGB_view_tile(dbg, arr, tile_size, tile_index)

view_tile_mut(v, dbg, arr, tile_size, tile_index) ==
    CASE v = "GA" -> GA_view_tile_mut(dbg, arr, tile_size, tile_index)
      [] v = "RGB" -> RGB_view_tile_mut(dbg, arr, tile_size, tile_index)

InitSingleTile ==
    /\ variant \in TileVariants
    /\ debug_assertions \in BOOLEAN
    /\ \E a \in 1 .. MaxGrid, b \in 1 .. MaxGrid :
         data = new(variant, debug_assertions, Ramp(a, b, Channels(variant))).val
    /\ ret = Done("new", <<>>)
    /\ hist = <<data>>
    /\ trace = <<>>
    /\ writes = 0

ExtractTile ==
    \E tile_size \in PairInputs, tile_index \in PairInputs :
        Read("extract_tile", <<tile_size, tile_index>>,
             extract_tile(variant, debug_assertions, data, tile_size, tile_index))

ViewTile ==
    \E tile_size \in PairInputs, tile_index \in PairInputs :
        Read("view_tile", <<tile_size, tile_index>>,
             view_tile(variant, debug_assertions, data, tile_size, tile_index))

ViewTileMut ==
    \E tile_size \in PairInputs, tile_index \in PairInputs :
        Read("view_tile_mut", <<tile_size, tile_index>>,
             view_tile_mut(variant, debug_assertions, data, tile_size, tile_index))

NextSingleTile == ExtractTile \/ ViewTile \/ ViewTileMut

SpecSingleTile == InitSingleTile /\ [][NextSingleTile]_vars

\* The dimension each component of tile_size and tile_index is compared with
\* in the variant's own assertions: (height, width) in ImageGA, (width,
\* height) in ImageRGB.
TileDimensions(v, arr) ==
    IF v = "GA" THEN <<GA_height(arr), GA_width(arr)>>
    ELSE <<RGB_width(arr), RGB_height(arr)>>

\* C12: for ImageGA and ImageRGB, a call of extract_tile, view_tile or
\* view_tile_mut with a positive tile_size aborts, returning no tile or view
\* and leaving the buffer as it was, whenever a dimension is not an exact
\* multiple of its tile_size component or a tile_index component is not
\* below dimension / tile_size.
C12_SingleTilePrecondition ==
    (/\ ret.op \in {"extract_tile", "view_tile", "view_tile_mut"}
     /\ \A i \in 1 .. 2 : ret.args[1][i] > 0) =>
        LET tile_size == ret.args[1]
            tile_index == ret.args[2]
            dimension == TileDimensions(variant, data)
        IN  (\E i \in 1 .. 2 :
                \/ dimension[i] % tile_size[i] # 0
                \/ tile_index[i] >= dimension[i] \div tile_size[i]) =>
                    ~ret.ok /\ data = hist[1]

----------------------------------------------------------------------------
(* Transforms in any number and order, against the buffer they started     *)
(* from.                                                                   *)

\* Buffers with all components distinct, and buffers in which pixels repeat.
InitOrbit ==
    /\ variant \in Variants
    /\ debug_assertions \in BOOLEAN
    /\ \E h \in 1 .. MaxSide, w \in 1 .. MaxSide :
          data \in {new(variant, debug_assertions, Ramp(h, w, Channels(variant))).val,
                    new(variant, debug_assertions, Defect(h, w, Channels(variant))).val}
    /\ ret = Done("new", <<>>)
    /\ hist = <<data>>
    /\ trace = <<>>
    /\ writes = 0

\* A transform replaces self.data; hist keeps the buffer as constructed.
Apply(op, arr) ==
    /\ ret.ok
    /\ data' = arr
    /\ ret' = Done(op, <<>>)
    /\ UNCHANGED <<variant, debug_assertions, hist, trace, writes>>

OrbitTranspose == Apply("transpose", transpose(variant, data))

OrbitFlipVertical == Apply("flip_vertical", flip_vertical(variant, data))

OrbitFlipHorizontal == Apply("flip_horizontal", flip_horizontal(variant, data))

OrbitRotateClockwise == Apply("rotate_clockwise", rotate_clockwise(variant, data))

OrbitRotateAnticlockwise == Apply("rotate_anticlockwise", rotate_anticlockwise(variant, data))

OrbitRotate180 == Apply("rotate_180", rotate_180(variant, data))

NextOrbit ==
    \/ OrbitTranspose
    \/ OrbitFlipVertical
    \/ OrbitFlipHorizontal
    \/ OrbitRotateClockwise
    \/ OrbitRotateAnticlockwise
    \/ OrbitRotate180

SpecOrbit == InitOrbit /\ [][NextOrbit]_vars

\* The pixels of a buffer with the number of positions each occupies.
Positions(arr) == (0 .. arr.dim[1] - 1) \X (0 .. arr.dim[2] - 1)

PixelAt(arr, p) == [k \in 1 .. arr.dim[3] |-> arr.a[<<p[1], p[2], k - 1>>]]

PixelBag(arr) ==
    [pixel \in {PixelAt(arr, p) : p \in Positions(arr)} |->
        Cardinality({p \in Positions(arr) : PixelAt(arr, p) = pixel})]

\* C13: after any sequence of the six transforms on a valid buffer, the
\* buffer has the variant's channel count C, a storage of H' * W' * C
\* components with H' * W' = H * W and {H', W'} = {H, W}, and the same
\* multiset of pixels as the buffer the sequence started from.
C13_TransformsMovePixels ==
    LET orig == hist[1]
    IN  /\ data.dim[3] = Channels(variant)
        /\ DOMAIN data.a = Idx(data.dim)
        /\ Cardinality(DOMAIN data.a) = data.dim[1] * data.dim[2] * Channels(variant)
        /\ data.dim[1] * data.dim[2] = orig.dim[1] * orig.dim[2]
        /\ {data.dim[1], data.dim[2]} = {orig.dim[1], orig.dim[2]}
        /\ {height(variant, data), width(variant, data)} = {orig.dim[1], orig.dim[2]}
        /\ PixelBag(data) = PixelBag(orig)

\* rotate_180 has just run, after transforms that swapped the sides of a
\* non-square buffer in which a pixel repeats.
C13_Witness ==
    /\ ret.op = "rotate_180"
    /\ data.dim[1] # hist[1].dim[1]
    /\ data # hist[1]
    /\ \E pixel \in DOMAIN PixelBag(data) : PixelBag(data)[pixel] > 1

====
